---- MODULE Spec2Model ----
(***************************************************************************)
(* JSPyBridge, Python side: the Executor (src/src/javascript/proxy.py),    *)
(* the Proxy object model built on it, and the parts of the event loop and *)
(* of the remote (JavaScript) side that the Executor talks to.             *)
(*                                                                         *)
(* Caller threads run small programs of Proxy operations.  Every shared    *)
(* field of the Executor (i, ctr, expectReply) and of the event loop       *)
(* (outbound, requests, responses, freeable) and the reference table       *)
(* bridge.m is a variable; a thread's position inside ipc / pcall is pc[t] *)
(* and its Python locals are loc[t].  A step of a thread is one access to  *)
(* shared state, so the interleavings of concurrent callers are those the  *)
(* interpreter can produce between two bytecodes.                          *)
(***************************************************************************)
EXTENDS Integers, Sequences, FiniteSets, TLC

(***************************************************************************)
(* Dictionaries (Python dict): functions with a finite domain.             *)
(***************************************************************************)
EmptyDict == << >>

Put(f, k, v) == [x \in (DOMAIN f) \cup {k} |-> IF x = k THEN v ELSE f[x]]

Del(f, k) == [x \in (DOMAIN f) \ {k} |-> f[x]]

SeqToSet(s) == {s[x] : x \in DOMAIN s}

Max(S) == CHOOSE x \in S : \A y \in S : y <= x

Min(S) == CHOOSE x \in S : \A y \in S : x <= y

(***************************************************************************)
(* Values.  A Python value that can be a call argument is [t, v, o]:       *)
(*   t = "int" | "float" | "none" | "bool" | "str" : a JSON value v        *)
(*   t = "obj"  : a local object without an ffid attribute, identity v     *)
(*   t = "ffid" : an object carrying an ffid attribute (a Proxy), ffid v   *)
(* A serialized argument is the same record; an adoption request           *)
(* {"r": tag, "ffid": ""} is [t |-> "adopt", v |-> tag, o |-> object]: o   *)
(* is not on the wire, it records which object the entry stands for.       *)
(***************************************************************************)
Arg(t, v) == [t |-> t, v |-> v, o |-> 0]

AdoptEntry(tag, obj) == [t |-> "adopt", v |-> tag, o |-> obj]

FfidEntry(f) == [t |-> "ffid", v |-> f, o |-> 0]

\* threading.Event.wait(timeout): timeout None is the empty set, n seconds is {n}
NoTimeout == {}

Secs(n) == {n}

(***************************************************************************)
(* Proxy objects: class Proxy, __init__.                                   *)
(***************************************************************************)
NoProp == {}

\* self._Keys: Optional[List[str]]: None is << >>, a list is <<list>>
NoKeys == << >>

Proxy(ffid, prop_ffid, prop_name, es6) ==
  [ffid  |-> ffid,
   pffid |-> IF prop_ffid # NoProp THEN CHOOSE x \in prop_ffid : TRUE ELSE ffid,
   pname |-> prop_name,
   es6   |-> es6,
   ix    |-> 0,
   Keys  |-> NoKeys]

(***************************************************************************)
(* Caller programs.  An operation of a program names the Proxy it acts on  *)
(* by the local variable (slot) that holds it, and the variable that       *)
(* receives the result.                                                    *)
(***************************************************************************)
Threads == {"t1", "t2"}

Op(do, slot, key, args, tmo, fr, into) ==
  [do |-> do, slot |-> slot, key |-> key, args |-> args, tmo |-> tmo,
   fr |-> fr, into |-> into]

\* p.key                      (Proxy.__getattr__)
OpGet(slot, key, into) == Op("getattr", slot, key, << >>, NoTimeout, FALSE, into)
\* p[key]                     (Proxy.__getitem__)
OpItem(slot, key, into) == Op("getitem", slot, key, << >>, NoTimeout, FALSE, into)
\* iter(p), next(p)           (Proxy.__iter__, Proxy.__next__)
OpIter(slot) == Op("iter", slot, "", << >>, NoTimeout, FALSE, "")
OpNext(slot) == Op("next", slot, "", << >>, NoTimeout, FALSE, "")
\* p.new                      (Proxy.__getattr__, attr == "new")
OpNew(slot, into) == Op("getattr", slot, "new", << >>, NoTimeout, FALSE, into)
\* p(*args, timeout=tmo, forceRefs=fr)   (Proxy.__call__)
OpCall(slot, args, tmo, fr, into) == Op("call", slot, "", args, tmo, fr, into)
\* p.key = val                (Proxy.__setattr__)
OpSet(slot, key, val) == Op("setattr", slot, key, <<val>>, NoTimeout, FALSE, "")
\* str(p), p.valueOf(), p.blobValueOf(), exe.keys(p.ffid)
OpStr(slot) == Op("str", slot, "str", << >>, NoTimeout, FALSE, "")
OpValueOf(slot) == Op("valueOf", slot, "", << >>, NoTimeout, FALSE, "")
OpBlob(slot) == Op("blobValueOf", slot, "", << >>, NoTimeout, FALSE, "")
OpKeys(slot) == Op("keys", slot, "", << >>, NoTimeout, FALSE, "")
\* exe.callProp(p.ffid, key, args): the timeout keyword is left to its default
OpCallProp(slot, key, args) == Op("callProp", slot, key, args, NoTimeout, FALSE, "")
\* del p                      (Proxy.__del__ when the last reference goes)
OpDel(slot) == Op("del", slot, "", << >>, NoTimeout, FALSE, "")
\* On(emitter, event)(fn) and off(emitter, event, fn), what follows the call
\* emitter.on(event, fn) / emitter.off(event, fn) made through the Proxy in slot
OpOn(slot, fn) == Op("On", slot, "", <<fn>>, NoTimeout, FALSE, "")
OpOff(slot, fn) == Op("off", slot, "", <<fn>>, NoTimeout, FALSE, "")

\* Proxy.__call__: timeout: Optional[float] = 10
CallDefaultTimeout == 10

\* two callers, one simple request each
SimplePrograms ==
  { [t \in Threads |-> IF t = "t1" THEN <<a>> ELSE <<b>>] :
      a \in {OpGet("root", "a", "x"), OpStr("root"), OpBlob("root")},
      b \in {OpGet("root", "b", "y"), OpValueOf("root"), OpKeys("root")} }

\* local objects without an ffid, by identity
Obj(n) == Arg("obj", n)

\* local functions (event handlers), by identity; they take the attributes
\* iffid and ffid when they are registered
Fn(n) == Arg("fn", n)

Handlers == {3}

\* an attribute that is not set is << >>, one that is set to v is <<v>>
NoAttrs == [iffid |-> << >>, ffid |-> << >>]

Only(ops) == [t \in Threads |-> IF t = "t1" THEN ops ELSE << >>]

Both(a, b) == [t \in Threads |-> IF t = "t1" THEN a ELSE b]

Dflt == Secs(CallDefaultTimeout)

\* one caller, calls that pass local objects
CallPrograms ==
  { Only(<<OpCall("root", <<Obj(1)>>, Dflt, FALSE, "x")>>),
    Only(<<OpCall("root", <<Obj(1), Arg("int", 5), Obj(2)>>, Dflt, FALSE, "x")>>),
    Only(<<OpCall("root", <<Arg("str", 1), Arg("ffid", 0)>>, Dflt, FALSE, "x")>>),
    Only(<<OpSet("root", "k", Obj(1))>>),
    Only(<<OpSet("root", "k", Arg("int", 5))>>),
    Only(<<OpCallProp("root", "f", << >>)>>),
    Only(<<OpGet("root", "C", "c"), OpCall("c", <<Obj(1)>>, Dflt, FALSE, "x")>>) }

\* forceRefs calls (eval_js): the arguments are the captured environment
ForceRefsPrograms ==
  { Only(<<OpCall("root", <<Arg("int", 5), Obj(1)>>, Dflt, TRUE, "")>>),
    Only(<<OpCall("root", <<Arg("bool", 1), Arg("str", 1), Arg("ffid", 0)>>, Dflt, TRUE, "")>>) }

\* concurrent calls
ConcurrentPrograms ==
  { Both(<<OpCall("root", <<Obj(1)>>, Dflt, FALSE, "")>>,
         <<OpGet("root", "a", "")>>),
    Both(<<OpSet("root", "k", Obj(1))>>, <<OpSet("root", "k", Arg("int", 5))>>) }

\* Proxies dropped while others with the same FFID, or bound to it, live on
GcPrograms ==
  { Only(<<OpGet("root", "C", "c"), OpNew("c", "n"), OpDel("n"), OpNew("c", "d"),
           OpDel("d")>>),
    Only(<<OpGet("root", "a", "x"), OpGet("x", "foo", "f"), OpDel("x"),
           OpCall("f", << >>, Dflt, FALSE, "")>>),
    Both(<<OpGet("root", "a", "x"), OpGet("x", "foo", "f"),
           OpCall("f", << >>, Dflt, FALSE, "")>>,
         <<OpDel("x")>>) }

\* functions read as attributes, read by index, and returned by calls
FnPrograms ==
  { Only(<<OpGet("root", "mk", "g"), OpCall("g", << >>, Dflt, FALSE, "h"),
           OpCall("h", << >>, Dflt, FALSE, "")>>),
    Only(<<OpItem("root", "mk", "g"), OpCall("g", << >>, Dflt, FALSE, "")>>),
    Only(<<OpGet("root", "foo", "g"), OpNew("g", "k"),
           OpCall("k", << >>, Dflt, FALSE, "")>>) }

\* iteration: an array, an object with keys, an object without keys, a function
IterPrograms ==
  { Only(<<OpGet("root", "a", "x"), OpIter("x"), OpNext("x"), OpNext("x"),
           OpNext("x")>>),
    Only(<<OpGet("root", "a", "x"), OpIter("x"), OpNext("x"), OpIter("x"),
           OpNext("x")>>),
    Only(<<OpIter("root"), OpNext("root"), OpNext("root"), OpNext("root")>>),
    Only(<<OpIter("root"), OpNext("root"), OpIter("root"), OpNext("root")>>),
    Only(<<OpGet("root", "b", "y"), OpIter("y"), OpNext("y")>>),
    Only(<<OpGet("root", "foo", "g"), OpIter("g"), OpNext("g")>>) }

\* On(emitter, event)(fn): emitter.on(event, fn) is the attribute read
\* emitter.on and the call of the Proxy it returns
On(emitter, fn) ==
  <<OpGet(emitter, "on", "o"), OpCall("o", <<Arg("str", 1), fn>>, Dflt, FALSE, ""),
    OpOn("o", fn)>>

\* off(emitter, event, handler)
off(emitter, handler) ==
  <<OpGet(emitter, "off", "o"),
    OpCall("o", <<Arg("str", 1), handler>>, Dflt, FALSE, ""), OpOff("o", handler)>>

\* event handlers: registered and passed on, registered and removed,
\* registered while another thread makes a call
HandlerPrograms ==
  { Only(On("root", Fn(3)) \o <<OpCall("root", <<Fn(3)>>, Dflt, FALSE, "")>>),
    Only(On("root", Fn(3)) \o off("root", Fn(3))),
    Both(On("root", Fn(3)), <<OpSet("root", "k", Arg("int", 5))>>) }

\* the same key read as an attribute and by index, of a method Proxy and of
\* the root Proxy
ReadPrograms ==
  { Only(<<OpGet("root", "foo", "g"), OpGet("g", "x", ""), OpItem("g", "x", "")>>),
    Only(<<OpGet("root", "x", ""), OpItem("root", "x", "")>>) }

Programs ==
  SimplePrograms \cup CallPrograms \cup ForceRefsPrograms \cup ConcurrentPrograms
    \cup GcPrograms \cup FnPrograms \cup IterPrograms \cup HandlerPrograms
    \cup ReadPrograms

VARIABLES
  i,            \* Executor.i
  ctr,          \* Executor.ctr
  expectReply,  \* Executor.expectReply
  m,            \* bridge.m (loop.pyi.m): the reference table, ffid -> object
  outbound,     \* loop.outbound: payloads queued for the transport
  requests,     \* loop.requests: request id -> lock (threading.Event)
  responses,    \* loop.responses: request id -> inbound frame (with its barrier)
  freeable,     \* loop.freeable: the pending-free queue
  lockSet,      \* the locks that have been set
  loopBarrier,  \* the request id whose barrier the loop thread waits in, or 0
  inbound,      \* frames written by the remote side, not yet read by the loop
  pending,      \* remote side: requests received and not yet answered
  nextFfid,     \* remote side: the next FFID it assigns
  freed,        \* remote side: FFIDs whose free notification it has processed
  truth,        \* remote side: assigned FFID -> the adoption entry it was minted for
  heap,         \* remote side: FFID of a remote object -> which object it is
  proxies,      \* the live Proxy objects, by the local variable that holds them
  prog,         \* per thread: the operations it still has to run
  pc,           \* per thread: position inside the running operation
  loc,          \* per thread: the Python locals of the running operation
  out,          \* per thread: how its last operation ended
  issued,       \* history: every correlation id handed to a request
  sentFree,     \* history: every FFID written to the transport in a free message
  cbLog,        \* history: the callbacks the loop dispatched and what m resolved
  lateLog,      \* history: ids whose caller timed out
  adoptLog,     \* history: the calls that took their FFID-assignment reply
  reqLog,       \* history: the requests queued, in order
  made,         \* history: local variable -> how the Proxy it holds was made
  iters,      \* history: local variable -> the iteration in progress on its Proxy
  callbacks,  \* loop.callbacks: FFID -> the handler registered under it
  pyattr        \* the attributes iffid and ffid of the local handler functions

vars == <<i, ctr, expectReply, m, outbound, requests, responses, freeable,
          lockSet, loopBarrier, inbound, pending, nextFfid, freed, truth, heap,
          proxies, prog, pc, loc, out, issued, sentFree, cbLog, lateLog, adoptLog,
          reqLog, made, iters, callbacks, pyattr>>

execVars == <<i, ctr, expectReply>>
loopVars == <<outbound, requests, responses, lockSet, loopBarrier, callbacks>>
remoteVars == <<inbound, pending, nextFfid, freed, truth, heap>>
histVars == <<issued, sentFree, cbLog, lateLog, adoptLog, reqLog, made, iters>>

NoFrame == [r |-> 0, kind |-> "", val |-> 0, asg |-> << >>, st |-> "", sn |-> 0]

NoLoc ==
  [action |-> "", ffid |-> 0, key |-> "", args |-> << >>, fr |-> FALSE,
   tmo |-> NoTimeout, self |-> "", into |-> "", do |-> "",
   r |-> 0, r2 |-> 0, tmp |-> 0, wanted |-> EmptyDict, pay |-> << >>, k |-> 0,
   p |-> 0, res |-> NoFrame]

NoOut == [st |-> "", kind |-> "", val |-> 0, r |-> 0, name |-> ""]

\* config.global_jsi = proxy.Proxy(config.executor, 0)
RootProxy == Proxy(0, NoProp, "", FALSE)

Init ==
  /\ i = 0
  /\ ctr = 0
  /\ expectReply = FALSE
  /\ m = EmptyDict
  /\ outbound = << >>
  /\ requests = EmptyDict
  /\ responses = EmptyDict
  /\ freeable = << >>
  /\ lockSet = {}
  /\ loopBarrier = 0
  /\ callbacks = EmptyDict
  /\ inbound = << >>
  /\ pending = << >>
  /\ nextFfid = 1
  /\ freed = {}
  /\ truth = EmptyDict
  /\ heap = [f \in {0} |-> "root"]
  /\ proxies = [s \in {"root"} |-> RootProxy]
  /\ pyattr = [h \in Handlers |-> NoAttrs]
  /\ prog \in Programs
  /\ pc = [t \in Threads |-> "idle"]
  /\ loc = [t \in Threads |-> NoLoc]
  /\ out = [t \in Threads |-> NoOut]
  /\ issued = {}
  /\ sentFree = << >>
  /\ cbLog = << >>
  /\ lateLog = {}
  /\ adoptLog = {}
  /\ reqLog = << >>
  /\ made = EmptyDict
  /\ iters = EmptyDict

(***************************************************************************)
(* Bookkeeping of a caller thread.                                         *)
(***************************************************************************)
CurOp(t) == Head(prog[t])

\* the serial number of the operation thread t is running
OpNo(t) == Len(prog[t])

\* a threading.Event made by queue_request / await_response for thread t:
\* which = "lock" (the request's own lock) or "l2" (the FFID-assignment lock)
Lock(t, which) == <<t, OpNo(t), which>>

CanStart(t, does) ==
  /\ pc[t] = "idle"
  /\ prog[t] # << >>
  /\ CurOp(t).do \in does
  /\ CurOp(t).slot \in DOMAIN proxies

\* the operation of t ends (returns or raises) with outcome o
Finish(t, o) ==
  /\ out' = [out EXCEPT ![t] = o]
  /\ pc' = [pc EXCEPT ![t] = "idle"]
  /\ prog' = [prog EXCEPT ![t] = Tail(@)]
  /\ loc' = [loc EXCEPT ![t] = NoLoc]

Returned(kind, val, r) ==
  [st |-> "return", kind |-> kind, val |-> val, r |-> r, name |-> ""]

Raised(what, val, r) ==
  [st |-> what, kind |-> "", val |-> val, r |-> r, name |-> ""]

\* raise JavaScriptError(attr, res["error"])
JavaScriptError(attr, res) ==
  [st |-> "JavaScriptError", kind |-> "", val |-> res.val, r |-> res.r, name |-> attr]

\* enter Executor.ipc(action, ffid, attr) / Executor.pcall(ffid, action, attr, args, ...)
Enter(t, where, action, ffid, attr, args, tmo, fr) ==
  /\ loc' = [loc EXCEPT ![t] =
               [NoLoc EXCEPT !.action = action, !.ffid = ffid, !.key = attr,
                             !.args = args, !.tmo = tmo, !.fr = fr,
                             !.self = CurOp(t).slot, !.into = CurOp(t).into,
                             !.do = CurOp(t).do]]
  /\ pc' = [pc EXCEPT ![t] = where]
  /\ UNCHANGED <<prog, out>>

(***************************************************************************)
(* Proxy._call(method, methodType, val): wrap a decoded (kind, value).     *)
(* The result is [px, proxy, val]: px says that it is a new Proxy.         *)
(***************************************************************************)
Wrapped(proxy) == [px |-> TRUE, proxy |-> proxy, val |-> 0]

Plain(val) == [px |-> FALSE, proxy |-> RootProxy, val |-> val]

Proxy_call_(self, method, methodType, val) ==
  CASE methodType = "fn"    -> Wrapped(Proxy(val, {self.ffid}, method, FALSE))
    [] methodType = "class" -> Wrapped(Proxy(val, NoProp, "", TRUE))
    [] methodType = "obj"   -> Wrapped(Proxy(val, NoProp, "", FALSE))
    [] methodType = "inst"  -> Wrapped(Proxy(val, NoProp, "", FALSE))
    [] methodType = "void"  -> Plain(0)
    [] methodType = "py"    -> Plain(IF val \in DOMAIN m THEN m[val] ELSE 0)
    [] OTHER                -> Plain(val)

\* how a Proxy was made: by which Proxy (its ffid), for which attribute or
\* method name, from a response of which kind, in which operation
Made(t, kind) ==
  [by |-> proxies[loc[t].self].ffid, of |-> proxies[loc[t].self],
   name |-> IF loc[t].do = "call" THEN proxies[loc[t].self].pname ELSE loc[t].key,
   kind |-> kind, do |-> loc[t].do]

\* bind the result of an operation of t to its target variable
Bind(t, w) ==
  IF w.px /\ loc[t].into # ""
    THEN /\ proxies' = Put(proxies, loc[t].into, w.proxy)
         /\ made' = Put(made, loc[t].into, Made(t, loc[t].res.kind))
    ELSE UNCHANGED <<proxies, made>>

(***************************************************************************)
(* Proxy operations that start a simple request.                           *)
(***************************************************************************)
\* Executor.ipc: if not _lock.wait(10)
IpcTimeout == 10

\* Proxy.__getattr__
Proxy_getattr(t) ==
  /\ CanStart(t, {"getattr"})
  /\ LET self == proxies[CurOp(t).slot]
         attr == CurOp(t).key
     IN IF attr = "new"
          THEN LET w == Proxy_call_(self,
                                    IF self.pffid = self.ffid THEN self.pname ELSE "",
                                    "class", self.pffid)
               IN /\ proxies' = Put(proxies, CurOp(t).into, w.proxy)
                  /\ made' = Put(made, CurOp(t).into,
                                 [by |-> self.ffid, of |-> self, name |-> "new",
                                  kind |-> "class",
                                  do |-> "getattr"])
                  /\ Finish(t, Returned("class", self.pffid, 0))
          ELSE /\ Enter(t, "ipc_load", "get", self.pffid, attr, << >>,
                        Secs(IpcTimeout), FALSE)
               /\ UNCHANGED <<proxies, made>>
  /\ UNCHANGED <<execVars, m, loopVars, freeable, remoteVars, issued, sentFree,
                 cbLog, lateLog, adoptLog, reqLog, iters, pyattr>>

\* Proxy.__getitem__: self._exe.getProp(self.ffid, attr)
Proxy_getitem(t) ==
  /\ CanStart(t, {"getitem"})
  /\ Enter(t, "ipc_load", "get", proxies[CurOp(t).slot].ffid, CurOp(t).key, << >>,
           Secs(IpcTimeout), FALSE)
  /\ UNCHANGED <<execVars, m, loopVars, freeable, remoteVars, histVars, proxies, pyattr>>

\* Proxy.__str__: self._exe.inspect(self.ffid, "str")
Proxy_str(t) ==
  /\ CanStart(t, {"str"})
  /\ Enter(t, "ipc_load", "inspect", proxies[CurOp(t).slot].ffid, "str", << >>,
           Secs(IpcTimeout), FALSE)
  /\ UNCHANGED <<execVars, m, loopVars, freeable, remoteVars, histVars, proxies, pyattr>>

\* Proxy.valueOf: self._exe.ipc("serialize", self.ffid, "")
Proxy_valueOf(t) ==
  /\ CanStart(t, {"valueOf"})
  /\ Enter(t, "ipc_load", "serialize", proxies[CurOp(t).slot].ffid, "", << >>,
           Secs(IpcTimeout), FALSE)
  /\ UNCHANGED <<execVars, m, loopVars, freeable, remoteVars, histVars, proxies, pyattr>>

\* Proxy.blobValueOf: self._exe.ipc("blob", self.ffid, "")
Proxy_blobValueOf(t) ==
  /\ CanStart(t, {"blobValueOf"})
  /\ Enter(t, "ipc_load", "blob", proxies[CurOp(t).slot].ffid, "", << >>,
           Secs(IpcTimeout), FALSE)
  /\ UNCHANGED <<execVars, m, loopVars, freeable, remoteVars, histVars, proxies, pyattr>>

\* Executor.keys(ffid): self.ipc("keys", ffid, "")
Executor_keys(t) ==
  /\ CanStart(t, {"keys"})
  /\ Enter(t, "ipc_load", "keys", proxies[CurOp(t).slot].ffid, "", << >>,
           Secs(IpcTimeout), FALSE)
  /\ UNCHANGED <<execVars, m, loopVars, freeable, remoteVars, histVars, proxies, pyattr>>

(***************************************************************************)
(* EventLoop.queue_request(request_id, payload) and                        *)
(* EventLoop.await_response(request_id): register a fresh lock under the   *)
(* id; queue_request also queues the payload for the transport.            *)
(***************************************************************************)
Packet(t, r, action, ffid, key, args, p) ==
  [r |-> r, action |-> action, ffid |-> ffid, key |-> key, args |-> args,
   p |-> p, st |-> t, sn |-> OpNo(t)]

\* an entry of the request history: the packet and the operation that sent it
Logged(t, packet) == [req |-> packet, do |-> loc[t].do, self |-> loc[t].self]

queue_request(request_id, payload, lock) ==
  /\ outbound' = Append(outbound, payload)
  /\ requests' = Put(requests, request_id, lock)

await_response(request_id, lock) ==
  /\ requests' = Put(requests, request_id, lock)
  /\ UNCHANGED outbound

(***************************************************************************)
(* Executor.ipc                                                            *)
(***************************************************************************)
\* the id re-read from the shared counter at each use, instead of the local r
ipc_r_shared(t) == i

\* the id ipc registers its lock under and reads its response from (local r)
ipc_r(t) == loc[t].r

\* self.i += 1, the read of self.i
ipc_load(t) ==
  /\ pc[t] = "ipc_load"
  /\ loc' = [loc EXCEPT ![t].tmp = i]
  /\ pc' = [pc EXCEPT ![t] = "ipc_store"]
  /\ UNCHANGED <<execVars, m, loopVars, freeable, remoteVars, histVars, proxies,
                 prog, out, pyattr>>

\* self.i += 1, the write of self.i
ipc_store(t) ==
  /\ pc[t] = "ipc_store"
  /\ i' = loc[t].tmp + 1
  /\ pc' = [pc EXCEPT ![t] = "ipc_id"]
  /\ UNCHANGED <<ctr, expectReply, m, loopVars, freeable, remoteVars, histVars,
                 proxies, prog, loc, out, pyattr>>

\* r = self.i
ipc_id(t) ==
  /\ pc[t] = "ipc_id"
  /\ loc' = [loc EXCEPT ![t].r = i]
  /\ issued' = issued \cup {[t |-> t, n |-> OpNo(t), role |-> "r", id |-> i]}
  /\ pc' = [pc EXCEPT ![t] = "ipc_queue"]
  /\ UNCHANGED <<execVars, m, loopVars, freeable, remoteVars, sentFree, cbLog,
                 lateLog, adoptLog, reqLog, made, proxies, prog, out, iters, pyattr>>

\* _lock = self.queue(r, {"r": r, "action": action, "ffid": ffid, "key": attr})
ipc_queue(t) ==
  /\ pc[t] = "ipc_queue"
  /\ queue_request(ipc_r(t),
                   Packet(t, loc[t].r, loc[t].action, loc[t].ffid, loc[t].key,
                          loc[t].args, 0),
                   Lock(t, "lock"))
  /\ reqLog' = Append(reqLog, Logged(t, Packet(t, loc[t].r, loc[t].action,
                                               loc[t].ffid, loc[t].key,
                                               loc[t].args, 0)))
  /\ pc' = [pc EXCEPT ![t] = "ipc_wait"]
  /\ UNCHANGED <<execVars, m, responses, lockSet, loopBarrier, freeable,
                 remoteVars, issued, sentFree, cbLog, lateLog, adoptLog, made,
                 proxies, prog, loc, out, iters, callbacks, pyattr>>

\* _lock.wait(10) returns False: raise Exception("Timed out accessing ...")
ipc_timeout(t) ==
  /\ pc[t] = "ipc_wait"
  /\ Lock(t, "lock") \notin lockSet
  /\ loc[t].tmo # NoTimeout
  /\ lateLog' = lateLog \cup {loc[t].r}
  /\ Finish(t, Raised("timeout", 0, loc[t].r))
  /\ UNCHANGED <<execVars, m, loopVars, freeable, remoteVars, issued, sentFree,
                 cbLog, adoptLog, reqLog, made, proxies, iters, pyattr>>

\* _lock.wait(10) returns True; res, barrier = self.loop.responses[r];
\* del self.loop.responses[r]
ipc_take(t) ==
  /\ pc[t] = "ipc_wait"
  /\ Lock(t, "lock") \in lockSet
  /\ IF ipc_r(t) \in DOMAIN responses
       THEN /\ loc' = [loc EXCEPT ![t].res = responses[ipc_r(t)]]
            /\ responses' = Del(responses, ipc_r(t))
            /\ pc' = [pc EXCEPT ![t] = "ipc_barrier"]
            /\ UNCHANGED <<prog, out>>
       ELSE /\ Finish(t, Raised("KeyError", 0, loc[t].r))
            /\ UNCHANGED responses
  /\ UNCHANGED <<execVars, m, outbound, requests, lockSet, loopBarrier, freeable,
                 remoteVars, histVars, proxies, callbacks, pyattr>>

\* what the caller of ipc makes of the response: getProp + Proxy._call, inspect,
\* valueOf, blobValueOf, keys
ipc_result(t) ==
  LET res == loc[t].res
  IN IF loc[t].do \in {"getattr", "getitem"}
       THEN Proxy_call_(proxies[loc[t].self], loc[t].key, res.kind, res.val)
       ELSE Plain(res.val)

(***************************************************************************)
(* Iteration: Proxy.__iter__ and Proxy.__next__.  Both read self.length,   *)
(* an attribute read (Proxy.__getattr__), and go on when ipc has returned. *)
(***************************************************************************)
\* the index keys of self[self._ix]
IdxKey(n) == <<"0", "1", "2", "3">>[n + 1]

\* the steps of __iter__ / __next__ that wait for a simple request:
\* self.length in __iter__, self._exe.keys, self.length in __next__, self[ix]
IterSteps == {"iter", "iter_keys", "next", "next_item"}

NewIter == [start |-> Len(reqLog), items |-> << >>, end |-> "", gotKeys |-> FALSE]

\* if self._Keys:
KeysTruthy(self) == self.Keys # NoKeys /\ self.Keys[1] # << >>

\* the next simple request of the same operation
Reenter(t, action, ffid, attr, do) ==
  /\ loc' = [loc EXCEPT ![t] =
               [NoLoc EXCEPT !.action = action, !.ffid = ffid, !.key = attr,
                             !.tmo = Secs(IpcTimeout), !.self = loc[t].self,
                             !.into = loc[t].into, !.do = do]]
  /\ pc' = [pc EXCEPT ![t] = "ipc_load"]
  /\ UNCHANGED <<prog, out>>

\* def __iter__: self._ix = 0; if self.length is None: ...
Proxy_iter(t) ==
  /\ CanStart(t, {"iter"})
  /\ proxies' = [proxies EXCEPT ![CurOp(t).slot].ix = 0]
  /\ iters' = Put(iters, CurOp(t).slot, NewIter)
  /\ Enter(t, "ipc_load", "get", proxies[CurOp(t).slot].pffid, "length", << >>,
           Secs(IpcTimeout), FALSE)
  /\ UNCHANGED <<execVars, m, loopVars, freeable, remoteVars, issued, sentFree,
                 cbLog, lateLog, adoptLog, reqLog, made, pyattr>>

\* def __next__: if self._Keys: ... elif self._ix < self.length: ...
Proxy_next(t) ==
  /\ CanStart(t, {"next"})
  /\ LET s == CurOp(t).slot
         self == proxies[s]
     IN IF KeysTruthy(self)
          THEN IF self.ix < Len(self.Keys[1])
                 THEN /\ proxies' = [proxies EXCEPT ![s].ix = self.ix + 1]
                      /\ iters' = [iters EXCEPT ![s].items =
                                     Append(@, self.Keys[1][self.ix + 1])]
                      /\ Finish(t, Returned("key", self.ix, 0))
                 ELSE /\ iters' = [iters EXCEPT ![s].end = "StopIteration"]
                      /\ Finish(t, Raised("StopIteration", 0, 0))
                      /\ UNCHANGED proxies
          ELSE /\ Enter(t, "ipc_load", "get", self.pffid, "length", << >>,
                        Secs(IpcTimeout), FALSE)
               /\ UNCHANGED <<proxies, iters>>
  /\ UNCHANGED <<execVars, m, loopVars, freeable, remoteVars, issued, sentFree,
                 cbLog, lateLog, adoptLog, reqLog, made, pyattr>>

\* __iter__ / __next__ after ipc has returned res (no error)
iter_continue(t) ==
  LET res == loc[t].res
      s == loc[t].self
      self == proxies[s]
  IN CASE loc[t].do = "iter" ->
            \* if self.length is None: self._Keys = self._exe.keys(self.ffid)
            /\ IF res.kind = "void"
                 THEN Reenter(t, "keys", self.ffid, "", "iter_keys")
                 ELSE Finish(t, Returned(res.kind, res.val, res.r))
            /\ UNCHANGED <<proxies, iters>>
       [] loc[t].do = "iter_keys" ->
            /\ proxies' = [proxies EXCEPT ![s].Keys = <<res.val>>]
            /\ iters' = [iters EXCEPT ![s].gotKeys = TRUE]
            /\ Finish(t, Returned(res.kind, res.val, res.r))
       [] loc[t].do = "next" ->
            \* elif self._ix < self.length: result = self[self._ix]
            /\ IF res.kind = "void"
                 THEN /\ Finish(t, Raised("TypeError", 0, res.r))
                      /\ iters' = [iters EXCEPT ![s].end = "TypeError"]
                 ELSE IF self.ix < res.val
                 THEN /\ Reenter(t, "get", self.ffid, IdxKey(self.ix), "next_item")
                      /\ UNCHANGED iters
                 ELSE /\ Finish(t, Raised("StopIteration", 0, res.r))
                      /\ iters' = [iters EXCEPT ![s].end = "StopIteration"]
            /\ UNCHANGED proxies
       [] OTHER ->
            \* self._ix += 1; return result
            /\ proxies' = [proxies EXCEPT ![s].ix = self.ix + 1]
            /\ iters' = [iters EXCEPT ![s].items = Append(@, loc[t].key)]
            /\ Finish(t, Returned(res.kind, res.val, res.r))

\* barrier.wait(); if "error" in res: raise JavaScriptError(attr, res["error"]);
\* return res
ipc_barrier(t) ==
  /\ pc[t] = "ipc_barrier"
  /\ loopBarrier' = IF loopBarrier = loc[t].res.r THEN 0 ELSE loopBarrier
  /\ IF loc[t].res.kind = "error"
       THEN /\ Finish(t, JavaScriptError(loc[t].key, loc[t].res))
            /\ UNCHANGED <<proxies, made, iters>>
       ELSE IF loc[t].res.kind = "assign"
       THEN /\ Finish(t, Raised("KeyError", 0, loc[t].res.r))
            /\ UNCHANGED <<proxies, made, iters>>
       ELSE IF loc[t].do \in IterSteps
       THEN /\ iter_continue(t)
            /\ UNCHANGED made
       ELSE /\ Bind(t, ipc_result(t))
            /\ Finish(t, Returned(loc[t].res.kind, loc[t].res.val, loc[t].res.r))
            /\ UNCHANGED iters
  /\ UNCHANGED <<execVars, m, outbound, requests, responses, lockSet, freeable,
                 remoteVars, issued, sentFree, cbLog, lateLog, adoptLog, reqLog, callbacks, pyattr>>

\* Executor.free(ffid): self.loop.freeable.append(ffid)
Executor_free(ffid) == freeable' = Append(freeable, ffid)

\* Proxy.__del__: self._exe.free(self.ffid).  The object is destroyed when its
\* last reference goes: no thread is inside one of its methods.
Proxy_del(t) ==
  /\ CanStart(t, {"del"})
  /\ \A u \in Threads : pc[u] = "idle" \/ loc[u].self # CurOp(t).slot
  /\ Executor_free(proxies[CurOp(t).slot].ffid)
  /\ proxies' = Del(proxies, CurOp(t).slot)
  /\ Finish(t, Returned("", 0, 0))
  /\ UNCHANGED <<execVars, m, loopVars, remoteVars, histVars, pyattr>>

\* On(emitter, event)(fn) after emitter.on(event, fn): the Proxy of emitter.on
\* is dropped; if the call raised, so does On; else ffid = getattr(fn, "iffid");
\* setattr(fn, "ffid", ffid); loop.callbacks[ffid] = fn
On_decor(t) ==
  /\ CanStart(t, {"On"})
  /\ Executor_free(proxies[CurOp(t).slot].ffid)
  /\ proxies' = Del(proxies, CurOp(t).slot)
  /\ LET fn == CurOp(t).args[1].v
     IN IF out[t].st # "return"
          THEN /\ Finish(t, out[t])
               /\ UNCHANGED <<callbacks, pyattr>>
          ELSE IF pyattr[fn].iffid = << >>
          THEN /\ Finish(t, Raised("AttributeError", 0, 0))
               /\ UNCHANGED <<callbacks, pyattr>>
          ELSE /\ pyattr' = [pyattr EXCEPT ![fn].ffid = pyattr[fn].iffid]
               /\ callbacks' = Put(callbacks, pyattr[fn].iffid[1], fn)
               /\ Finish(t, Returned("", 0, 0))
  /\ UNCHANGED <<execVars, m, outbound, requests, responses, lockSet, loopBarrier,
                 remoteVars, histVars>>

\* off(emitter, event, handler) after emitter.off(event, handler): the Proxy
\* of emitter.off is dropped; if the call raised, so does off; else
\* del config.event_loop.callbacks[getattr(handler, "ffid")]
off_del(t) ==
  /\ CanStart(t, {"off"})
  /\ Executor_free(proxies[CurOp(t).slot].ffid)
  /\ proxies' = Del(proxies, CurOp(t).slot)
  /\ LET handler == CurOp(t).args[1].v
     IN IF out[t].st # "return"
          THEN /\ Finish(t, out[t])
               /\ UNCHANGED callbacks
          ELSE IF pyattr[handler].ffid = << >>
          THEN /\ Finish(t, Raised("AttributeError", 0, 0))
               /\ UNCHANGED callbacks
          ELSE IF pyattr[handler].ffid[1] \notin DOMAIN callbacks
          THEN /\ Finish(t, Raised("KeyError", 0, 0))
               /\ UNCHANGED callbacks
          ELSE /\ callbacks' = Del(callbacks, pyattr[handler].ffid[1])
               /\ Finish(t, Returned("", 0, 0))
  /\ UNCHANGED <<execVars, m, outbound, requests, responses, lockSet, loopBarrier,
                 remoteVars, histVars, pyattr>>

(***************************************************************************)
(* Proxy operations that start a two-part call.                            *)
(***************************************************************************)
\* Executor.pcall: timeout: Optional[float] = 1000
PcallDefaultTimeout == 1000

\* Executor.callProp: timeout: Optional[float] = None
CallPropDefaultTimeout == NoTimeout

\* Executor.initProp / Executor.setProp: pcall's default timeout
initProp_timeout == Secs(PcallDefaultTimeout)

\* Proxy.__call__: initProp when _es6, else callProp with timeout and forceRefs
Proxy_call(t) ==
  /\ CanStart(t, {"call"})
  /\ LET self == proxies[CurOp(t).slot]
     IN IF self.es6
          THEN Enter(t, "pcall_ids", "init", self.pffid, self.pname, CurOp(t).args,
                     initProp_timeout, FALSE)
          ELSE Enter(t, "pcall_ids", "call", self.pffid, self.pname, CurOp(t).args,
                     CurOp(t).tmo, CurOp(t).fr)
  /\ UNCHANGED <<execVars, m, loopVars, freeable, remoteVars, histVars, proxies, pyattr>>

\* Proxy.__setattr__ (a name outside INTERNAL_VARS): self._exe.setProp(self.ffid, name, value)
Proxy_setattr(t) ==
  /\ CanStart(t, {"setattr"})
  /\ Enter(t, "pcall_ids", "set", proxies[CurOp(t).slot].ffid, CurOp(t).key,
           CurOp(t).args, initProp_timeout, FALSE)
  /\ UNCHANGED <<execVars, m, loopVars, freeable, remoteVars, histVars, proxies, pyattr>>

\* Executor.callProp(ffid, method, args) with its own defaults
Executor_callProp(t) ==
  /\ CanStart(t, {"callProp"})
  /\ Enter(t, "pcall_ids", "call", proxies[CurOp(t).slot].ffid, CurOp(t).key,
           CurOp(t).args, CallPropDefaultTimeout, FALSE)
  /\ UNCHANGED <<execVars, m, loopVars, freeable, remoteVars, histVars, proxies, pyattr>>

(***************************************************************************)
(* Executor.pcall                                                          *)
(***************************************************************************)
\* hasattr(arg, "ffid")
HasFfid(arg) == arg.t = "ffid" \/ (arg.t = "fn" /\ pyattr[arg.v].ffid # << >>)

\* arg.ffid
FfidOf(arg) == IF arg.t = "fn" THEN pyattr[arg.v].ffid[1] ELSE arg.v

\* forceRefs: isinstance(v, (int, float)) or v is None or v is True or v is False
IsPrimitive(v) == v.t \in {"int", "float", "none", "bool"}

\* not forceRefs: what json.dumps encodes without calling default=ser
JsonNative(v) == v.t \in {"int", "float", "none", "bool", "str"}

\* the value goes into the payload as it is, ser is not called for it
Inline(fr, v) == IF fr THEN IsPrimitive(v) ELSE JsonNative(v)

\* ser(arg) takes the known-reference branch: {"ffid": arg.ffid}
SerAsRef(fr, arg) == HasFfid(arg)

RECURSIVE PutInline(_, _, _, _)
\* the payload after the values from position k that need no ser
PutInline(fr, args, k, pay) ==
  IF k <= Len(args) /\ Inline(fr, args[k])
    THEN PutInline(fr, args, k + 1, Append(pay, args[k]))
    ELSE pay

\* the next position from k whose value is handed to ser
NextSer(fr, args, k) == Len(PutInline(fr, args, k, << >>)) + k

AfterArg(t, k, pay) ==
  [loc[t] EXCEPT !.pay = PutInline(loc[t].fr, loc[t].args, k, pay),
                 !.k = NextSer(loc[t].fr, loc[t].args, k)]

SerOrQueue(t, k) ==
  IF NextSer(loc[t].fr, loc[t].args, k) <= Len(loc[t].args) THEN "ser_load"
  ELSE "pcall_queue"

\* the ids of the call response and of the FFID-assignment response
pcall_callRespId(t) == loc[t].r

pcall_ffidRespId(t) == loc[t].r2

\* wanted = {}; self.ctr = 0; callRespId = self.i + 1
pcall_ids(t) ==
  /\ pc[t] = "pcall_ids"
  /\ ctr' = 0
  /\ loc' = [loc EXCEPT ![t].r = i + 1, ![t].wanted = EmptyDict]
  /\ issued' = issued \cup {[t |-> t, n |-> OpNo(t), role |-> "call", id |-> i + 1]}
  /\ pc' = [pc EXCEPT ![t] = "pcall_ids2"]
  /\ UNCHANGED <<i, expectReply, m, loopVars, freeable, remoteVars, sentFree, cbLog,
                 lateLog, adoptLog, reqLog, made, proxies, prog, out, iters, pyattr>>

\* ffidRespId = self.i + 2 (the second read of self.i in the same statement)
pcall_ids2(t) ==
  /\ pc[t] = "pcall_ids2"
  /\ loc' = [loc EXCEPT ![t].r2 = i + 2]
  /\ issued' = issued \cup {[t |-> t, n |-> OpNo(t), role |-> "ffid", id |-> i + 2]}
  /\ pc' = [pc EXCEPT ![t] = "pcall_load"]
  /\ UNCHANGED <<execVars, m, loopVars, freeable, remoteVars, sentFree, cbLog,
                 lateLog, adoptLog, reqLog, made, proxies, prog, out, iters, pyattr>>

\* self.i += 2, the read of self.i
pcall_load(t) ==
  /\ pc[t] = "pcall_load"
  /\ loc' = [loc EXCEPT ![t].tmp = i]
  /\ pc' = [pc EXCEPT ![t] = "pcall_store"]
  /\ UNCHANGED <<execVars, m, loopVars, freeable, remoteVars, histVars, proxies,
                 prog, out, pyattr>>

\* self.i += 2, the write of self.i; self.expectReply = False; the values
\* before the first call of ser go into the payload
pcall_store(t) ==
  /\ pc[t] = "pcall_store"
  /\ i' = loc[t].tmp + 2
  /\ expectReply' = FALSE
  /\ loc' = [loc EXCEPT ![t] = AfterArg(t, 1, << >>)]
  /\ pc' = [pc EXCEPT ![t] = SerOrQueue(t, 1)]
  /\ UNCHANGED <<ctr, m, loopVars, freeable, remoteVars, histVars, proxies, prog,
                 out, pyattr>>

\* ser(arg): self.ctr += 1, the read of self.ctr
ser_load(t) ==
  /\ pc[t] = "ser_load"
  /\ loc' = [loc EXCEPT ![t].tmp = ctr]
  /\ pc' = [pc EXCEPT ![t] = "ser_store"]
  /\ UNCHANGED <<execVars, m, loopVars, freeable, remoteVars, histVars, proxies,
                 prog, out, pyattr>>

\* ser(arg): self.ctr += 1, the write of self.ctr; then return {"ffid": arg.ffid}
\* for an arg with an ffid, and self.expectReply = True for any other
ser_store(t) ==
  /\ pc[t] = "ser_store"
  /\ ctr' = loc[t].tmp + 1
  /\ LET arg == loc[t].args[loc[t].k]
     IN IF SerAsRef(loc[t].fr, arg)
          THEN /\ loc' = [loc EXCEPT ![t] =
                            AfterArg(t, loc[t].k + 1,
                                     Append(loc[t].pay, FfidEntry(FfidOf(arg))))]
               /\ pc' = [pc EXCEPT ![t] = SerOrQueue(t, loc[t].k + 1)]
               /\ UNCHANGED expectReply
          ELSE /\ expectReply' = TRUE
               /\ pc' = [pc EXCEPT ![t] = "ser_wanted"]
               /\ UNCHANGED loc
  /\ UNCHANGED <<i, m, loopVars, freeable, remoteVars, histVars, proxies, prog, out, pyattr>>

\* ser(arg): wanted[self.ctr] = arg
ser_wanted(t) ==
  /\ pc[t] = "ser_wanted"
  /\ loc' = [loc EXCEPT ![t].wanted = Put(@, ctr, loc[t].args[loc[t].k].v)]
  /\ pc' = [pc EXCEPT ![t] = "ser_return"]
  /\ UNCHANGED <<execVars, m, loopVars, freeable, remoteVars, histVars, proxies,
                 prog, out, pyattr>>

\* ser(arg): return {"r": self.ctr, "ffid": ""}
ser_return(t) ==
  /\ pc[t] = "ser_return"
  /\ loc' = [loc EXCEPT ![t] =
               AfterArg(t, loc[t].k + 1,
                        Append(loc[t].pay, AdoptEntry(ctr, loc[t].args[loc[t].k].v)))]
  /\ pc' = [pc EXCEPT ![t] = SerOrQueue(t, loc[t].k + 1)]
  /\ UNCHANGED <<execVars, m, loopVars, freeable, remoteVars, histVars, proxies,
                 prog, out, pyattr>>

\* packet["p"] = self.ctr (or ',"p":{self.ctr}' appended);
\* lock = self.loop.queue_request(callRespId, payload)
pcall_queue(t) ==
  /\ pc[t] = "pcall_queue"
  /\ queue_request(pcall_callRespId(t),
                   Packet(t, loc[t].r, loc[t].action, loc[t].ffid, loc[t].key,
                          loc[t].pay, ctr),
                   Lock(t, "lock"))
  /\ reqLog' = Append(reqLog, Logged(t, Packet(t, loc[t].r, loc[t].action,
                                               loc[t].ffid, loc[t].key,
                                               loc[t].pay, ctr)))
  /\ loc' = [loc EXCEPT ![t].p = ctr]
  /\ pc' = [pc EXCEPT ![t] = "pcall_check"]
  /\ UNCHANGED <<execVars, m, responses, lockSet, loopBarrier, freeable,
                 remoteVars, issued, sentFree, cbLog, lateLog, adoptLog, made,
                 proxies, prog, out, iters, callbacks, pyattr>>

\* if self.expectReply: l2 = self.loop.await_response(ffidRespId)
pcall_check(t) ==
  /\ pc[t] = "pcall_check"
  /\ IF expectReply
       THEN /\ await_response(pcall_ffidRespId(t), Lock(t, "l2"))
            /\ pc' = [pc EXCEPT ![t] = "pcall_wait2"]
       ELSE /\ pc' = [pc EXCEPT ![t] = "pcall_wait"]
            /\ UNCHANGED <<outbound, requests>>
  /\ UNCHANGED <<execVars, m, responses, lockSet, loopBarrier, freeable,
                 remoteVars, histVars, proxies, prog, loc, out, callbacks, pyattr>>

\* l2.wait(timeout) returns False: raise Exception("Execution timed out")
pcall_timeout2(t) ==
  /\ pc[t] = "pcall_wait2"
  /\ Lock(t, "l2") \notin lockSet
  /\ loc[t].tmo # NoTimeout
  /\ lateLog' = lateLog \cup {loc[t].r2}
  /\ Finish(t, Raised("timeout", 0, loc[t].r2))
  /\ UNCHANGED <<execVars, m, loopVars, freeable, remoteVars, issued, sentFree,
                 cbLog, adoptLog, reqLog, made, proxies, iters, pyattr>>

\* l2.wait(timeout) returns True; pre, barrier = self.loop.responses[ffidRespId];
\* del self.loop.responses[ffidRespId]
pcall_take2(t) ==
  /\ pc[t] = "pcall_wait2"
  /\ Lock(t, "l2") \in lockSet
  /\ IF pcall_ffidRespId(t) \in DOMAIN responses
       THEN /\ loc' = [loc EXCEPT ![t].res = responses[pcall_ffidRespId(t)]]
            /\ responses' = Del(responses, pcall_ffidRespId(t))
            /\ pc' = [pc EXCEPT ![t] = "pcall_adopt"]
            /\ UNCHANGED <<prog, out>>
       ELSE /\ Finish(t, Raised("KeyError", 0, loc[t].r2))
            /\ UNCHANGED responses
  /\ UNCHANGED <<execVars, m, outbound, requests, lockSet, loopBarrier, freeable,
                 remoteVars, histVars, proxies, callbacks, pyattr>>

RECURSIVE Adopt(_, _, _, _)
\* for requestId in pre["val"]: self.bridge.m[ffid] = wanted[int(requestId)]
\* the tags come in the order of the reply's object, ascending; a tag that is
\* not in wanted raises KeyError and ends the loop
Adopt(mm, val, wanted, tags) ==
  IF tags = {} THEN [m |-> mm, ok |-> TRUE]
  ELSE LET tag == Min(tags)
       IN IF tag \notin DOMAIN wanted THEN [m |-> mm, ok |-> FALSE]
          ELSE Adopt(Put(mm, val[tag], wanted[tag]), val, wanted, tags \ {tag})

RECURSIVE Mark(_, _, _, _)
\* in the same loop: if hasattr(self.bridge.m[ffid], "__call__"):
\* setattr(self.bridge.m[ffid], "iffid", ffid)
Mark(attrs, val, wanted, tags) ==
  IF tags = {} THEN attrs
  ELSE LET tag == Min(tags)
       IN IF tag \notin DOMAIN wanted THEN attrs
          ELSE Mark(IF wanted[tag] \in Handlers
                      THEN [attrs EXCEPT ![wanted[tag]].iffid = <<val[tag]>>]
                      ELSE attrs,
                    val, wanted, tags \ {tag})

\* if "error" in pre: raise JavaScriptError(attr, pre["error"]);
\* the adoption loop; barrier.wait()
pcall_adopt(t) ==
  /\ pc[t] = "pcall_adopt"
  /\ LET pre == loc[t].res
         done == Adopt(m, pre.asg, loc[t].wanted, DOMAIN pre.asg)
     IN IF pre.kind = "error"
          THEN /\ Finish(t, JavaScriptError(loc[t].key, pre))
               /\ UNCHANGED <<m, loopBarrier, adoptLog, pyattr>>
          ELSE IF pre.kind # "assign"
          THEN /\ Finish(t, Raised("TypeError", 0, pre.r))
               /\ UNCHANGED <<m, loopBarrier, adoptLog, pyattr>>
          ELSE /\ m' = done.m
               /\ pyattr' = Mark(pyattr, pre.asg, loc[t].wanted, DOMAIN pre.asg)
               /\ adoptLog' = adoptLog \cup {<<t, OpNo(t)>>}
               /\ IF done.ok
                    THEN /\ loopBarrier' = IF loopBarrier = pre.r THEN 0 ELSE loopBarrier
                         /\ pc' = [pc EXCEPT ![t] = "pcall_wait"]
                         /\ UNCHANGED <<prog, loc, out>>
                    ELSE /\ Finish(t, Raised("KeyError", 0, pre.r))
                         /\ UNCHANGED loopBarrier
  /\ UNCHANGED <<execVars, outbound, requests, responses, lockSet, freeable,
                 remoteVars, issued, sentFree, cbLog, lateLog, reqLog, made,
                 proxies, iters, callbacks>>

\* lock.wait(timeout) returns False: raise Exception("Call to ... timed out")
pcall_timeout(t) ==
  /\ pc[t] = "pcall_wait"
  /\ Lock(t, "lock") \notin lockSet
  /\ loc[t].tmo # NoTimeout
  /\ lateLog' = lateLog \cup {loc[t].r}
  /\ Finish(t, Raised("timeout", 0, loc[t].r))
  /\ UNCHANGED <<execVars, m, loopVars, freeable, remoteVars, issued, sentFree,
                 cbLog, adoptLog, reqLog, made, proxies, iters, pyattr>>

\* lock.wait(timeout) returns True; res, barrier = self.loop.responses[callRespId];
\* del self.loop.responses[callRespId]
pcall_take(t) ==
  /\ pc[t] = "pcall_wait"
  /\ Lock(t, "lock") \in lockSet
  /\ IF pcall_callRespId(t) \in DOMAIN responses
       THEN /\ loc' = [loc EXCEPT ![t].res = responses[pcall_callRespId(t)]]
            /\ responses' = Del(responses, pcall_callRespId(t))
            /\ pc' = [pc EXCEPT ![t] = "pcall_barrier"]
            /\ UNCHANGED <<prog, out>>
       ELSE /\ Finish(t, Raised("KeyError", 0, loc[t].r))
            /\ UNCHANGED responses
  /\ UNCHANGED <<execVars, m, outbound, requests, lockSet, loopBarrier, freeable,
                 remoteVars, histVars, proxies, callbacks, pyattr>>

\* what the caller of pcall makes of (res["key"], res["val"]): Proxy.__call__
\* wraps "fn" as Proxy(self._exe, v) and hands the rest to Proxy._call
pcall_result(t) ==
  LET res == loc[t].res
  IN IF loc[t].do = "call"
       THEN IF res.kind = "fn"
              THEN Wrapped(Proxy(res.val, NoProp, "", FALSE))
              ELSE Proxy_call_(proxies[loc[t].self], proxies[loc[t].self].pname,
                               res.kind, res.val)
       ELSE Plain(res.val)

\* barrier.wait(); if "error" in res: raise JavaScriptError(attr, res["error"]);
\* return res["key"], res["val"]
pcall_barrier(t) ==
  /\ pc[t] = "pcall_barrier"
  /\ loopBarrier' = IF loopBarrier = loc[t].res.r THEN 0 ELSE loopBarrier
  /\ IF loc[t].res.kind = "error"
       THEN /\ Finish(t, JavaScriptError(loc[t].key, loc[t].res))
            /\ UNCHANGED <<proxies, made>>
       ELSE IF loc[t].res.kind = "assign"
       THEN /\ Finish(t, Raised("KeyError", 0, loc[t].res.r))
            /\ UNCHANGED <<proxies, made>>
       ELSE /\ Bind(t, pcall_result(t))
            /\ Finish(t, Returned(loc[t].res.kind, loc[t].res.val, loc[t].res.r))
  /\ UNCHANGED <<execVars, m, outbound, requests, responses, lockSet, freeable,
                 remoteVars, issued, sentFree, cbLog, lateLog, adoptLog, reqLog, iters, callbacks, pyattr>>

(***************************************************************************)
(* The remote side (bridge.js), as far as the wire protocol shows it.      *)
(***************************************************************************)
\* the transport holds a bounded number of unread frames
MaxInbound == 2

CanWrite == Len(inbound) < MaxInbound

IsAdopt(e) == e.t = "adopt"

AdoptIdx(args) == {k \in DOMAIN args : IsAdopt(args[k])}

\* a request as the remote keeps it: stage "assign" (FFIDs still to be
\* assigned to its adoption requests), "exec" (running, may call back),
\* "reply" (only the result is left to send)
Received(req) ==
  [req |-> req,
   stage |-> IF AdoptIdx(req.args) # {} THEN "assign" ELSE "reply",
   asg |-> EmptyDict]

FreePacket(ffids) ==
  [r |-> 0, action |-> "free", ffid |-> 0, key |-> "",
   args |-> [k \in DOMAIN ffids |-> FfidEntry(ffids[k])], p |-> 0,
   st |-> "", sn |-> 0]

RECURSIVE TakeIn(_, _)
\* the requests among the frames, in order
TakeIn(frames, pend) ==
  IF frames = << >> THEN pend
  ELSE TakeIn(Tail(frames),
              IF Head(frames).action = "free" THEN pend
              ELSE Append(pend, Received(Head(frames))))

RECURSIVE FreedIn(_)
\* the FFIDs of the free messages among the frames, in order
FreedIn(frames) ==
  IF frames = << >> THEN << >>
  ELSE (IF Head(frames).action = "free"
          THEN [k \in DOMAIN Head(frames).args |-> Head(frames).args[k].v]
          ELSE << >>) \o FreedIn(Tail(frames))

Remove(seq, k) == [x \in 1..(Len(seq) - 1) |-> IF x < k THEN seq[x] ELSE seq[x + 1]]

\* the FFIDs given to the adoption requests of args, first to last: the k-th
\* adoption request gets first + k - 1
RECURSIVE Assign(_, _, _)
Assign(args, k, first) ==
  IF k > Len(args) THEN EmptyDict
  ELSE IF IsAdopt(args[k])
         THEN Put(Assign(args, k + 1, first + 1), first, args[k])
         ELSE Assign(args, k + 1, first)

\* the reply's val, {tag: ffid}: a JSON object, so a tag asked for twice keeps
\* the FFID assigned last
TagMap(minted) ==
  [tag \in {minted[f].v : f \in DOMAIN minted} |->
     Max({f \in DOMAIN minted : minted[f].v = tag})]

Frame(r, kind, val, asg, req) ==
  [r |-> r, kind |-> kind, val |-> val, asg |-> asg, st |-> req.st, sn |-> req.sn]

\* the number that stands for an error payload
ErrPayload == 9

\* the remote assigns FFIDs to the adoption requests of a call and sends the
\* FFID-assignment reply under the id after the call's id; or it fails to,
\* and sends an error under that id and nothing more
RemoteAssign ==
  \E k \in DOMAIN pending : \E fails \in BOOLEAN :
  /\ pending[k].stage = "assign"
  /\ CanWrite
  /\ LET req == pending[k].req
         minted == Assign(req.args, 1, nextFfid)
     IN IF fails
     THEN /\ inbound' = Append(inbound,
                               Frame(req.r + 1, "error", ErrPayload, EmptyDict, req))
          /\ pending' = Remove(pending, k)
          /\ UNCHANGED <<truth, nextFfid>>
     ELSE
        /\ truth' = [f \in DOMAIN truth \cup DOMAIN minted |->
                       IF f \in DOMAIN minted
                         THEN [o |-> minted[f].o, st |-> req.st, sn |-> req.sn,
                               tag |-> minted[f].v,
                               rep |-> TagMap(minted)[minted[f].v] = f]
                         ELSE truth[f]]
        /\ nextFfid' = nextFfid + Cardinality(DOMAIN minted)
        /\ inbound' = Append(inbound, Frame(req.r + 1, "assign", 0, TagMap(minted), req))
        /\ pending' = [pending EXCEPT ![k].stage = "exec", ![k].asg = TagMap(minted)]
  /\ UNCHANGED <<execVars, m, loopVars, freeable, freed, heap, proxies, prog, pc,
                 loc, out, histVars, pyattr>>

\* while it executes the call, the remote calls back into an adopted argument
RemoteCallback ==
  \E k \in DOMAIN pending :
  /\ pending[k].stage = "exec"
  /\ pending[k].req.action \in {"call", "init"}
  /\ CanWrite
  /\ \E tag \in DOMAIN pending[k].asg :
        inbound' = Append(inbound,
                          Frame(0, "cb", pending[k].asg[tag], EmptyDict, pending[k].req))
  /\ pending' = [pending EXCEPT ![k].stage = "reply"]
  /\ UNCHANGED <<execVars, m, loopVars, freeable, nextFfid, freed, truth, heap, proxies,
                 prog, pc, loc, out, histVars, pyattr>>

\* the remote world: what reading a key yields, and what calling it yields
GetKind(key) ==
  CASE key \in {"a", "b"} -> "obj"
    [] key \in {"foo", "mk", "on", "off"} -> "fn"
    [] key = "C" -> "class"
    [] OTHER -> "num"

CallKind(key) ==
  CASE key = "foo" -> "obj"
    [] key = "mk" -> "fn"
    [] key = "f" -> "num"
    [] OTHER -> "void"

\* which remote object an FFID stands for
WhatIs(f) == IF f \in DOMAIN heap THEN heap[f] ELSE ""

\* the numeric length of a remote object, if it has one: the array a has two
\* elements, the function foo one parameter
LengthOf(what) ==
  CASE what = "a" -> <<2>>
    [] what = "foo" -> <<1>>
    [] OTHER -> << >>

\* the own enumerable keys of a remote object
KeysOf(what) ==
  CASE what = "root" -> <<"a", "b">>
    [] what = "a" -> <<"0", "1">>
    [] OTHER -> << >>

\* the kinds of result the remote may answer a request with: the result of
\* the operation, or an error
ReplyKinds(req) ==
  CASE req.action = "get" /\ req.key = "length" ->
         {IF LengthOf(WhatIs(req.ffid)) # << >> THEN "num" ELSE "void", "error"}
    [] req.action = "get" -> {GetKind(req.key), "error"}
    [] req.action = "call" -> {CallKind(req.key), "error"}
    [] req.action = "init" -> {"inst", "error"}
    [] req.action = "set" -> {"void", "error"}
    [] OTHER -> {"val", "error"}

RefKinds == {"fn", "class", "obj", "inst"}

\* the value in a response: a new FFID for a reference, the error payload,
\* the length, the key list, or a number that stands for any other payload
ReplyVal(req, kind) ==
  CASE kind \in RefKinds -> nextFfid
    [] kind = "error" -> ErrPayload
    [] kind = "void" -> 0
    [] kind = "num" /\ req.key = "length" -> LengthOf(WhatIs(req.ffid))[1]
    [] kind = "val" /\ req.action = "keys" -> KeysOf(WhatIs(req.ffid))
    [] OTHER -> 7

\* which remote object a new FFID stands for: the property read, the value
\* a call returned, or a new instance
Born(req) ==
  CASE req.action = "get" -> req.key
    [] req.action = "init" -> "inst"
    [] OTHER -> "ret"

\* the remote answers a request; requests are answered in any order
RemoteReply ==
  \E k \in DOMAIN pending : \E kind \in ReplyKinds(pending[k].req) :
  /\ pending[k].stage \in {"exec", "reply"}
  /\ CanWrite
  /\ LET req == pending[k].req
         val == ReplyVal(req, kind)
     IN /\ inbound' = Append(inbound, Frame(req.r, kind, val, EmptyDict, req))
        /\ nextFfid' = IF kind \in RefKinds THEN nextFfid + 1 ELSE nextFfid
        /\ heap' = IF kind \in RefKinds THEN Put(heap, nextFfid, Born(req)) ELSE heap
  /\ pending' = Remove(pending, k)
  /\ UNCHANGED <<execVars, m, loopVars, freeable, freed, truth, proxies, prog, pc,
                 loc, out, histVars, pyattr>>

(***************************************************************************)
(* The event loop thread (events.py): it alone writes the queued payloads  *)
(* to the transport, flushes the pending-free queue and reads the inbound  *)
(* frames.  After it has fulfilled a request it waits in the response's    *)
(* barrier until the caller has taken the response (barrier.wait() in      *)
(* ipc / pcall).                                                           *)
(***************************************************************************)
LoopFree == loopBarrier = 0

\* write the queued payloads to the transport; the remote receives them in order
LoopSend ==
  /\ LoopFree
  /\ outbound # << >>
  /\ pending' = TakeIn(outbound, pending)
  /\ freed' = freed \cup SeqToSet(FreedIn(outbound))
  /\ sentFree' = sentFree \o FreedIn(outbound)
  /\ outbound' = << >>
  /\ UNCHANGED <<execVars, m, requests, responses, lockSet, loopBarrier, freeable,
                 inbound, nextFfid, truth, heap, proxies, prog, pc, loc, out, issued,
                 cbLog, lateLog, adoptLog, reqLog, made, iters, callbacks, pyattr>>

\* flush the pending-free queue: one free message with the queue's content
LoopFlush ==
  /\ LoopFree
  /\ freeable # << >>
  /\ outbound' = Append(outbound, FreePacket(freeable))
  /\ freeable' = << >>
  /\ UNCHANGED <<execVars, m, requests, responses, lockSet, loopBarrier,
                 remoteVars, proxies, prog, pc, loc, out, histVars, callbacks, pyattr>>

\* an inbound frame whose id is registered: fulfil the request, then wait in
\* the barrier
LoopFulfill ==
  /\ LoopFree
  /\ inbound # << >>
  /\ Head(inbound).kind # "cb"
  /\ Head(inbound).r \in DOMAIN requests
  /\ LET frame == Head(inbound)
     IN /\ responses' = Put(responses, frame.r, frame)
        /\ lockSet' = lockSet \cup {requests[frame.r]}
        /\ requests' = Del(requests, frame.r)
        /\ loopBarrier' = frame.r
  /\ inbound' = Tail(inbound)
  /\ UNCHANGED <<execVars, m, outbound, freeable, pending, nextFfid, freed, truth, heap,
                 proxies, prog, pc, loc, out, histVars, callbacks, pyattr>>

\* an inbound frame whose id is not registered is dropped
LoopDiscard ==
  /\ LoopFree
  /\ inbound # << >>
  /\ Head(inbound).kind # "cb"
  /\ Head(inbound).r \notin DOMAIN requests
  /\ inbound' = Tail(inbound)
  /\ UNCHANGED <<execVars, m, loopVars, freeable, pending, nextFfid, freed, truth, heap,
                 proxies, prog, pc, loc, out, histVars, pyattr>>

\* a call-back frame: resolve the FFID in the reference table and invoke it
LoopCallback ==
  /\ LoopFree
  /\ inbound # << >>
  /\ Head(inbound).kind = "cb"
  /\ LET f == Head(inbound).val
     IN cbLog' = Append(cbLog, [ffid |-> f,
                                got |-> IF f \in DOMAIN m THEN m[f] ELSE 0])
  /\ inbound' = Tail(inbound)
  /\ UNCHANGED <<execVars, m, loopVars, freeable, pending, nextFfid, freed, truth, heap,
                 proxies, prog, pc, loc, out, issued, sentFree, lateLog,
                 adoptLog, reqLog, made, iters, pyattr>>

ThreadStep(t) ==
  \/ Proxy_getattr(t)
  \/ Proxy_getitem(t)
  \/ Proxy_iter(t)
  \/ Proxy_next(t)
  \/ Proxy_str(t)
  \/ Proxy_valueOf(t)
  \/ Proxy_blobValueOf(t)
  \/ Executor_keys(t)
  \/ ipc_load(t)
  \/ ipc_store(t)
  \/ ipc_id(t)
  \/ ipc_queue(t)
  \/ ipc_timeout(t)
  \/ ipc_take(t)
  \/ ipc_barrier(t)
  \/ Proxy_del(t)
  \/ On_decor(t)
  \/ off_del(t)
  \/ Proxy_call(t)
  \/ Proxy_setattr(t)
  \/ Executor_callProp(t)
  \/ pcall_ids(t)
  \/ pcall_ids2(t)
  \/ pcall_load(t)
  \/ pcall_store(t)
  \/ ser_load(t)
  \/ ser_store(t)
  \/ ser_wanted(t)
  \/ ser_return(t)
  \/ pcall_queue(t)
  \/ pcall_check(t)
  \/ pcall_timeout2(t)
  \/ pcall_take2(t)
  \/ pcall_adopt(t)
  \/ pcall_timeout(t)
  \/ pcall_take(t)
  \/ pcall_barrier(t)

Next ==
  \/ \E t \in Threads : ThreadStep(t)
  \/ LoopSend
  \/ LoopFulfill
  \/ LoopDiscard
  \/ LoopCallback
  \/ LoopFlush
  \/ RemoteAssign
  \/ RemoteCallback
  \/ RemoteReply

Spec == Init /\ [][Next]_vars

(***************************************************************************)
(* Properties                                                              *)
(***************************************************************************)
Waiting == {"ipc_wait", "pcall_wait2", "pcall_wait"}

\* thread t is inside an operation that still expects the response with id r
Awaits(t, r) ==
  \/ pc[t] \in {"ipc_wait", "ipc_barrier"} /\ loc[t].r = r
  \/ pc[t] \in {"pcall_check", "pcall_wait2", "pcall_adopt", "pcall_wait",
                "pcall_barrier"} /\ loc[t].r = r
  \/ pc[t] \in {"pcall_wait2", "pcall_adopt"} /\ loc[t].r2 = r

\* the FFIDs a request names: its target and its reference arguments
Refs(req) == {req.ffid} \cup {req.args[k].v : k \in {x \in DOMAIN req.args : req.args[x].t = "ffid"}}

\* C1: every correlation id handed out by the Executor (the id of a simple
\* request, the call-response id and the FFID-assignment id of a pcall) is
\* handed out once: no two requests, of one thread or of several, share an id.
C1_FreshIds == \A a, b \in issued : a # b => a.id # b.id

\* C2: a caller that has taken a response out of the response table holds
\* the response whose r is the id of its own request (the call-response id,
\* or the FFID-assignment id for the first wait of a pcall), whatever the
\* order in which the responses arrived.
C2_OwnResponse ==
  \A t \in Threads :
    /\ pc[t] \in {"ipc_barrier", "pcall_barrier"} => loc[t].res.r = loc[t].r
    /\ pc[t] = "pcall_adopt" => loc[t].res.r = loc[t].r2

\* C2, out of order: the caller with the later id has returned its own response
\* while the caller with the earlier id only now takes its own.
C2_OutOfOrder ==
  \E a, b \in Threads :
    /\ a # b
    /\ out[b].st = "return" /\ out[b].r > 0
    /\ pc[a] = "ipc_barrier"
    /\ loc[a].r < out[b].r
    /\ loc[a].res.r = loc[a].r

\* C3: every call-back the remote makes into an adopted argument finds, in
\* the reference table, the object that FFID was assigned to.
C3_CallbackResolves ==
  \A k \in DOMAIN cbLog : cbLog[k].got = truth[cbLog[k].ffid].o

\* C4: a caller blocked on a response that has not been delivered can always
\* time out: its wait carries a timeout, so it does not wait without limit.
C4_WaitTimesOut ==
  \A t \in Threads :
    (pc[t] \in Waiting /\ Lock(t, IF pc[t] = "pcall_wait2" THEN "l2" ELSE "lock") \notin lockSet)
      => loc[t].tmo # NoTimeout

\* C5: once the caller of id r has timed out and no caller waits for r, a
\* response for r is dropped: it is not put in the response table and the
\* loop does not wait in its barrier.
C5_LateDiscarded ==
  \A r \in lateLog :
    (\A t \in Threads : ~Awaits(t, r)) => (r \notin DOMAIN responses /\ loopBarrier # r)

\* C6: when a pcall has taken the FFID-assignment reply, every FFID f the
\* reply assigns resolves, in the reference table, to the argument whose
\* adoption request the remote assigned f to.
C6_AdoptionRoundTrip ==
  \A f \in DOMAIN truth :
    (truth[f].rep /\ <<truth[f].st, truth[f].sn>> \in adoptLog)
      => (f \in DOMAIN m /\ m[f] = truth[f].o)

\* C7: an FFID in the pending-free queue is held by no live Proxy.
C7_FreeOnlyLast ==
  \A k \in DOMAIN freeable : \A s \in DOMAIN proxies : proxies[s].ffid # freeable[k]

\* the caller of a request is still inside the operation that sent it
InFlight(req) == pc[req.st] # "idle" /\ OpNo(req.st) = req.sn

\* C8: no request that the remote has received and not yet answered, and whose
\* caller still waits for it, names (as its target or as an argument) an FFID
\* whose free notification the remote has processed.
C8_NoFreeInFlight ==
  \A k \in DOMAIN pending :
    InFlight(pending[k].req) => Refs(pending[k].req) \cap freed = {}

\* C9: an FFID is written to the transport in free messages at most once.
C9_FreeOnce ==
  \A a, b \in DOMAIN sentFree : a # b => sentFree[a] # sentFree[b]

\* C10: in a forceRefs call, when the environment has been serialized, every
\* primitive value is in the payload unchanged and every other value is an
\* adoption request whose tag is recorded in wanted for that value.
C10_ForceRefs ==
  \A t \in Threads :
    (pc[t] = "pcall_queue" /\ loc[t].fr) =>
      \A k \in DOMAIN loc[t].args :
        IF IsPrimitive(loc[t].args[k])
          THEN loc[t].pay[k] = loc[t].args[k]
          ELSE /\ loc[t].pay[k].t = "adopt"
               /\ loc[t].pay[k].v \in DOMAIN loc[t].wanted
               /\ loc[t].wanted[loc[t].pay[k].v] = loc[t].args[k].v

\* C11: a call made through a Proxy that was wrapped from a response tagged
\* fn (to an attribute read, an indexed read or a call) is a call request whose
\* ffid is the FFID of the Proxy that received the response and whose key is
\* the attribute or method name.
C11_FnBound ==
  \A t \in Threads :
    (/\ pc[t] = "pcall_queue"
     /\ loc[t].do = "call"
     /\ loc[t].self \in DOMAIN made
     /\ made[loc[t].self].kind = "fn")
    => (/\ loc[t].action = "call"
        /\ loc[t].ffid = made[loc[t].self].by
        /\ loc[t].key = made[loc[t].self].name)

\* the requests in the history that operation n of thread t has sent
SentBy(t, n) == {k \in DOMAIN reqLog : reqLog[k].req.st = t /\ reqLog[k].req.sn = n}

\* what a Proxy stands for on the remote side: the object with its FFID, or
\* the method of its owning target
StandsFor(p) == {<<p.ffid, "">>, <<p.pffid, p.pname>>}

\* the Proxy a call is made for: the one .new was read from, for a Proxy that
\* .new returned, else the called Proxy itself
Original(s) ==
  IF s \in DOMAIN made /\ made[s].name = "new" THEN made[s].of ELSE proxies[s]

\* C12: reading .new sends no request and yields a constructor-mode Proxy; a
\* call of a constructor-mode Proxy has sent exactly one request, an init, a
\* call of any other Proxy exactly one request, a call; and the request's ffid
\* and key name what the original Proxy stands for.
C12_NewInitCall ==
  /\ \A k \in DOMAIN reqLog : reqLog[k].req.key # "new"
  /\ \A s \in DOMAIN proxies :
       (s \in DOMAIN made /\ made[s].name = "new") => proxies[s].es6
  /\ \A t \in Threads :
       (loc[t].do = "call" /\ pc[t] \in {"pcall_check", "pcall_wait2", "pcall_adopt",
                                         "pcall_wait", "pcall_barrier"})
       => /\ Cardinality(SentBy(t, OpNo(t))) = 1
          /\ \A k \in SentBy(t, OpNo(t)) :
               /\ reqLog[k].req.action =
                    (IF proxies[loc[t].self].es6 THEN "init" ELSE "call")
               /\ <<reqLog[k].req.ffid, reqLog[k].req.key>>
                    \in StandsFor(Original(loc[t].self))

IsPrefix(a, b) == Len(a) <= Len(b) /\ \A k \in DOMAIN a : a[k] = b[k]

\* the index keys 0 .. n-1
Indices(n) == [k \in 1..n |-> IdxKey(k - 1)]

\* the requests that operations on the Proxy held by s have sent since the
\* iteration in progress on it began
SinceIter(s) ==
  LET OnSlot(e) == e.self = s
  IN SelectSeq(SubSeq(reqLog, iters[s].start + 1, Len(reqLog)), OnSlot)

\* those among them that fetched an item, self[self._ix]
ItemGets(s) ==
  LET IsItem(e) == e.do = "next_item"
  IN SelectSeq(SinceIter(s), IsItem)

\* C13: an iteration over a Proxy whose remote object has the numeric length
\* n yields the items of the indices 0, 1, ... in that order, at most n of
\* them, each obtained by a get request for the next index on the Proxy's FFID;
\* it ends only with StopIteration, and only after n items.  (An iteration
\* begins with __iter__, so iterating again starts again at index 0.)
C13_LengthIteration ==
  \A s \in DOMAIN iters \cap DOMAIN proxies :
    LET n == LengthOf(WhatIs(proxies[s].ffid))
        gets == ItemGets(s)
    IN n # << >> =>
         /\ IsPrefix(iters[s].items, Indices(n[1]))
         /\ \A k \in DOMAIN gets :
              /\ gets[k].req.action = "get"
              /\ gets[k].req.ffid = proxies[s].ffid
              /\ \E j \in 1..n[1] : gets[k].req.key = Indices(n[1])[j]
         /\ \A t \in Threads :
              (pc[t] # "idle" /\ loc[t].self = s /\ loc[t].do = "next_item")
              => loc[t].key = IdxKey(Len(iters[s].items))
         /\ Len(iters[s].items) <= Len(gets)
         /\ iters[s].end \in {"", "StopIteration"}
         /\ iters[s].end = "StopIteration" => Len(iters[s].items) = n[1]

\* C13, a full pass: an iteration over a Proxy of length 2 has yielded the
\* items 0 and 1 and has stopped.
C13_FullPass ==
  \E s \in DOMAIN iters \cap DOMAIN proxies :
    /\ LengthOf(WhatIs(proxies[s].ffid)) = <<2>>
    /\ iters[s].items = <<"0", "1">>
    /\ iters[s].end = "StopIteration"

\* C14: an iteration over a Proxy whose remote object has no length, once
\* the key list has been returned: it has sent exactly one keys request and
\* no request after it, it yields the keys of the list in order, and it ends
\* only with StopIteration, and only after the last key.
C14_KeysIteration ==
  \A s \in DOMAIN iters \cap DOMAIN proxies :
    (LengthOf(WhatIs(proxies[s].ffid)) = << >> /\ iters[s].gotKeys) =>
      LET keys == proxies[s].Keys[1]
          reqs == SinceIter(s)
      IN /\ Cardinality({k \in DOMAIN reqs : reqs[k].req.action = "keys"}) = 1
         /\ reqs[Len(reqs)].req.action = "keys"
         /\ IsPrefix(iters[s].items, keys)
         /\ iters[s].end \in {"", "StopIteration"}
         /\ iters[s].end = "StopIteration" => iters[s].items = keys

\* thread t holds a response that carries an error
HoldsError(t) ==
  /\ pc[t] \in {"ipc_barrier", "pcall_adopt", "pcall_barrier"}
  /\ loc[t].res.kind = "error"

\* C15: a thread that holds a response carrying an error -- the result of a
\* simple request, a call result or an FFID-assignment reply -- is the thread
\* that issued the request, and its next step ends the operation by raising
\* JavaScriptError with the attribute name of the request and the error
\* payload of the response; the operation binds no result.
C15_ErrorRaised ==
  [][\A t \in Threads :
       (HoldsError(t) /\ pc'[t] # pc[t]) =>
         /\ loc[t].res.st = t /\ loc[t].res.sn = OpNo(t)
         /\ pc'[t] = "idle"
         /\ out'[t] = JavaScriptError(loc[t].key, loc[t].res)
         /\ out'[t].name = reqLog[Max(SentBy(t, OpNo(t)))].req.key
         /\ out'[t].val = ErrPayload
         /\ proxies' = proxies /\ m' = m]_vars

\* thread t takes the step that ends operation do
Ends(t, do) ==
  /\ pc[t] = "idle" /\ prog[t] # << >> /\ CurOp(t).do = do
  /\ prog'[t] # prog[t]

\* C16: when the call emitter.on(event, fn) has returned, On stores fn in
\* callbacks under the FFID the remote side assigned to fn in that call or,
\* fn carrying an FFID already, under the FFID it carries, and fn carries
\* that FFID from then on; a call that passes a handler carrying an FFID
\* sends it as the known reference {"ffid": that FFID}; and when the call
\* emitter.off(event, fn) has returned for a handler fn that is stored in
\* callbacks, off removes the entry of the FFID fn carries, which holds fn,
\* and no other.
C16_HandlerFfid ==
  /\ [][\A t \in Threads :
         (Ends(t, "On") /\ out[t].st = "return") =>
           LET fn == CurOp(t).args[1].v
               had == pyattr[fn].ffid
           IN /\ out'[t].st = "return"
              /\ pyattr'[fn].ffid # << >>
              /\ LET f == pyattr'[fn].ffid[1]
                 IN /\ callbacks' = Put(callbacks, f, fn)
                    /\ f \in DOMAIN truth /\ truth[f].o = fn
                    /\ IF had # << >> THEN had = <<f>>
                       ELSE truth[f].st = t /\ truth[f].sn = OpNo(t) + 1]_vars
  /\ [][\A t \in Threads :
         (pc[t] = "pcall_queue" /\ pc'[t] # pc[t]) =>
           \A k \in DOMAIN loc[t].args :
             (loc[t].args[k].t = "fn" /\ pyattr[loc[t].args[k].v].ffid # << >>)
             => reqLog'[Len(reqLog')].req.args[k]
                  = FfidEntry(pyattr[loc[t].args[k].v].ffid[1])]_vars
  /\ [][\A t \in Threads :
         (/\ Ends(t, "off") /\ out[t].st = "return"
          /\ \E f \in DOMAIN callbacks : callbacks[f] = CurOp(t).args[1].v) =>
           LET fn == CurOp(t).args[1].v
           IN /\ out'[t].st = "return"
              /\ pyattr[fn].ffid # << >>
              /\ pyattr[fn].ffid[1] \in DOMAIN callbacks
              /\ callbacks[pyattr[fn].ffid[1]] = fn
              /\ callbacks' = Del(callbacks, pyattr[fn].ffid[1])]_vars

\* the FFIDs the remote side has sent to operation n of thread t in its
\* FFID-assignment reply
AssignedTo(t, n) ==
  {f \in DOMAIN truth : truth[f].st = t /\ truth[f].sn = n /\ truth[f].rep}

\* C17: a pcall that recorded an adoption request in wanted and has come to
\* wait for, or holds, its call result has taken its FFID-assignment reply
\* before, and the FFIDs assigned to it are in the Reference Table; a pcall
\* that recorded none is never waiting for, nor holding, an FFID-assignment
\* reply.
C17_AdoptFirst ==
  \A t \in Threads :
    /\ (pc[t] \in {"pcall_wait", "pcall_barrier"} /\ loc[t].wanted # EmptyDict)
       => /\ <<t, OpNo(t)>> \in adoptLog
          /\ AssignedTo(t, OpNo(t)) \subseteq DOMAIN m
    /\ (pc[t] \in {"pcall_wait2", "pcall_adopt"}) => loc[t].wanted # EmptyDict

RECURSIVE OwnPay(_, _, _, _)
\* the arguments of a call as they are serialized when nothing else runs:
\* from position k, after c arguments have gone through ser
OwnPay(fr, args, k, c) ==
  IF k > Len(args) THEN << >>
  ELSE IF Inline(fr, args[k]) THEN <<args[k]>> \o OwnPay(fr, args, k + 1, c)
  ELSE <<IF HasFfid(args[k]) THEN FfidEntry(FfidOf(args[k]))
         ELSE AdoptEntry(c + 1, args[k].v)>> \o OwnPay(fr, args, k + 1, c + 1)

\* C18: when a pcall has queued its request, the arguments in the request,
\* with the tags of its adoption requests, and its p count are those its own
\* arguments give when serialized alone, and the flag it is about to test to
\* decide whether to wait for an FFID-assignment reply says whether it made
\* an adoption request.
C18_OwnSerialization ==
  \A t \in Threads :
    pc[t] = "pcall_check" =>
      LET own == OwnPay(loc[t].fr, loc[t].args, 1, 0)
      IN /\ loc[t].pay = own
         /\ loc[t].p = Cardinality({k \in DOMAIN loc[t].args :
                                     ~Inline(loc[t].fr, loc[t].args[k])})
         /\ expectReply = (\E k \in DOMAIN own : IsAdopt(own[k]))

\* C19: when the event loop is about to dispatch the FFID-assignment reply
\* of a pcall whose caller has queued the request and has not yet taken the
\* reply nor given up, the FFID-assignment id is registered with the loop.
C19_WaitRegistered ==
  (inbound # << >> /\ LoopFree) =>
    LET frame == Head(inbound)
    IN (/\ frame.kind \in {"assign", "error"}
        /\ frame.st \in Threads
        /\ pc[frame.st] \in {"pcall_check", "pcall_wait2"}
        /\ OpNo(frame.st) = frame.sn
        /\ frame.r = loc[frame.st].r2)
       => frame.r \in DOMAIN requests

\* thread t has removed a response from the response table and has not yet
\* gone on from it
Holding == {"ipc_barrier", "pcall_adopt", "pcall_barrier"}

\* C20: the step by which a caller goes on from a response it removed from
\* the response table -- to the next wait, to its return or to a raise --
\* passes the barrier of that response: the loop thread, waiting in that
\* barrier, is released.
C20_BarrierWaited ==
  [][\A t \in Threads :
       (pc[t] \in Holding /\ pc'[t] # pc[t] /\ loopBarrier = loc[t].res.r)
       => loopBarrier' # loc[t].res.r]_vars

\* C21: a thread inside the attribute read p.k or the indexed read p[k] is
\* making the get request whose target is the FFID of p itself and whose key
\* is k: the two reads send the same request, whatever Proxy p is.
C21_SameGet ==
  \A t \in Threads :
    (pc[t] # "idle" /\ loc[t].do \in {"getattr", "getitem"}) =>
      /\ loc[t].action = "get"
      /\ loc[t].ffid = proxies[loc[t].self].ffid
      /\ loc[t].key = CurOp(t).key

====
